---- MODULE Spec2Model ----
(***************************************************************************)
(* Job-search chat agent (src/agent.py) and its sandbox provisioner        *)
(* (src/daytona.py).                                                       *)
(*                                                                         *)
(* The agent's message loop dispatches handle_message for one inbound      *)
(* ChatMessage at a time.  A valid message starts two executor tasks, the  *)
(* provisioner run_job_search_sandbox and the listing search               *)
(* JobSearcher.search_jobs, and joins them with asyncio.gather.  The       *)
(* remote collaborators (chat transport, sandbox platform, listing API,    *)
(* liveness endpoint) are the environment: every answer they can give is   *)
(* a nondeterministic choice.                                              *)
(*                                                                         *)
(* Strings are sequences of characters.  Exceptions are named by the call  *)
(* that raised them; str(e) is that name.  A handler's locals and the      *)
(* observations of its provisioning call are reset when the handler        *)
(* returns: nothing in the program refers to them afterwards.              *)
(***************************************************************************)
EXTENDS Integers, Sequences, FiniteSets, TLC

(* ------------------------------ bounds -------------------------------- *)

\* content parts per inbound message
MaxParts == 2

\* characters per text part
MaxPartLen == 2

\* listings the listing API returns in one response
MaxJobs == 6

\* distinct msg_id values of inbound messages
NumIds == 2

(* ------------------------- program constants -------------------------- *)

\* agent.py:40  len(query) < 3
MinQueryLen == 3

\* agent.py:67  jobs[:5]
TopResults == 5

\* daytona.py:129  jobs[:10]
SiteListings == 10

\* daytona.py:326  for _ in range(45)
PollAttempts == 45

\* daytona.py:334  time.sleep(1)
SleepSeconds == 1

\* daytona.py:261-266  len(install_cmds)
NumInstallCmds == 4

\* daytona.py:315  sandbox.get_preview_link(3000)
AppPort == 3000

\* daytona.py:318  sandbox.get_preview_link(22222)
TerminalPort == 22222

\* daytona.py:102, 329  status_code == 200
HttpOk == 200

(* ------------------------------ values -------------------------------- *)

None == "None"

Chars == {" ", "a"}

IsSpace(c) == c = " "

PartTexts == UNION {[1..k -> Chars] : k \in 0..MaxPartLen}

\* a content part: a TextContent carrying text, or a part of another type
Parts == {[type |-> "text", text |-> s] : s \in PartTexts}
            \cup {[type |-> "other", text |-> <<>>]}

Contents == UNION {[1..k -> Parts] : k \in 0..MaxParts}

MsgIds == 1..NumIds

NoMsg == [msg_id |-> 0, content |-> <<>>]

VARIABLES
    apiKey,      \* DAYTONA_API_KEY is set in the environment
    hpc,         \* handle_message: position
    msg,         \* handle_message: the inbound ChatMessage
    query,       \* handle_message: query (empty until computed)
    dispatched,  \* handle_message: both executor tasks were submitted
    reply,       \* handle_message: reply text (NoReply until composed)
    hexc,        \* handle_message: the exception caught at line 76
    sent,        \* what ctx.send delivered to the sender, in order
    jpc,         \* jobs_task: position
    jresult,     \* jobs_task: result
    cli,         \* daytona.py main(): position, line typed, user_input,
                 \* exception, output
    pure,        \* a call of a pure method of JobSearcher: argument and result
    conc,        \* provisioning calls of several messages on one platform
    prov         \* sandbox_task: the run_job_search_sandbox call, a record:
                 \*   pc          position
                 \*   exc         the exception it raised
                 \*   result      its return value
                 \*   sandbox     the sandbox of this call on the platform
                 \*   jobs        jobs
                 \*   installIdx  index into install_cmds
                 \*   url         url
                 \*   terminal    terminal_info
                 \*   ready       ready
                 \*   requests    liveness requests issued by the poll loop
                 \*   sleeps      one-second sleeps taken by the poll loop
                 \*   first200    the attempt on which the endpoint first
                 \*               answered 200 (0: not yet)
                 \*   deletes     sandbox.delete() calls
                 \*   calls       remote calls in order (polls excepted)
                 \*   installs    install attempts: command index, returned

hvars == <<hpc, msg, query, dispatched, reply, hexc, sent>>

jvars == <<jpc, jresult>>

pvars == <<prov>>

xvars == <<cli, pure, conc>>

vars == <<apiKey, hvars, jvars, pvars, xvars>>

(* ---------------------------- pure helpers ---------------------------- *)

Min(a, b) == IF a <= b THEN a ELSE b

RECURSIVE TextOf(_)
\* agent.py:34-37  the concatenation of the text of the TextContent parts
TextOf(content) ==
    IF content = <<>> THEN <<>>
    ELSE (IF Head(content).type = "text" THEN Head(content).text ELSE <<>>)
             \o TextOf(Tail(content))

RECURSIVE LStrip(_)
LStrip(s) ==
    IF s = <<>> THEN s
    ELSE IF IsSpace(Head(s)) THEN LStrip(Tail(s)) ELSE s

RECURSIVE RStrip(_)
RStrip(s) ==
    IF s = <<>> THEN s
    ELSE IF IsSpace(s[Len(s)]) THEN RStrip(SubSeq(s, 1, Len(s) - 1)) ELSE s

\* str.strip()
Strip(s) == RStrip(LStrip(s))

\* the length test off by one
TooShort_OffByOne(q) == q = <<>> \/ Len(q) < MinQueryLen - 1

\* agent.py:40  not query or len(query) < 3
TooShort(q) == q = <<>> \/ Len(q) < MinQueryLen

(* ------------------------------ listings ------------------------------ *)

\* a value of the response's data field: n listings, all of them mappings or
\* not (a list holding null, say)
Listings(n) == [n |-> n, mappings |-> TRUE]

EmptyJobs == Listings(0)

Malformed == [n |-> 1, mappings |-> FALSE]

Unset == [n |-> -1, mappings |-> TRUE]

ApiData == {Listings(n) : n \in 0..MaxJobs} \cup {Malformed}

\* what requests.get can do: answer with a status and a body, or raise
ApiResponses ==
    {[kind |-> "response", status |-> HttpOk, data |-> d] : d \in ApiData}
        \cup {[kind |-> "response", status |-> 500, data |-> EmptyJobs],
              [kind |-> "error", status |-> 0, data |-> EmptyJobs]}

\* daytona.py:95-111  JobSearcher.search_jobs: the data of a 200 response,
\* the empty list otherwise; never raises
SearchJobs(resp) ==
    IF resp.kind = "response" /\ resp.status = HttpOk THEN resp.data
    ELSE EmptyJobs

\* if jobs:
Truthy(jobs) == jobs.n > 0

\* format_job_listing over jobs[:limit] raises on a listing that is no mapping
FormatRaises(jobs, limit) == Min(jobs.n, limit) > 0 /\ ~jobs.mappings

(* ------------------------------ messages ------------------------------ *)

\* no reply text yet
NoReply == [kind |-> "none", url |-> None, entries |-> <<>>, error |-> None]

Ack(id) == [type |-> "ack", acknowledged_msg_id |-> id, text |-> NoReply]

Chat(text) == [type |-> "chat", acknowledged_msg_id |-> 0, text |-> text]

\* agent.py:28-31
AckFor(m) == Ack(m.msg_id)

\* agent.py:49
Hint == [kind |-> "hint", url |-> None, entries |-> <<>>, error |-> None]

\* agent.py:77  f"Error: {str(e)}"
ErrorReply(e) == [kind |-> "error", url |-> None, entries |-> <<>>, error |-> e]

\* agent.py:72-75  url is None for "Preview URL unavailable."; entries is
\* the numbered lines under "Top results:", none for "No jobs found."
ResultReply(u, k) == [kind |-> "results", url |-> u, entries |-> k, error |-> None]

\* the slice left out: every listing is printed
TopEntries_NoSlice(jobs) == [i \in 1..jobs.n |-> [num |-> i, job |-> i]]

\* agent.py:67-71  for i, job in enumerate(jobs[:5], 1): line i shows the
\* i-th listing of the response
TopEntries(jobs) ==
    [i \in 1..Min(jobs.n, TopResults) |-> [num |-> i, job |-> i]]

(* --------------------------- provisioner values ------------------------ *)

\* daytona.py:232  a bare return
NoResult == [tuple |-> FALSE, sandbox |-> None, url |-> None]

\* daytona.py:371
NoneNone == [tuple |-> TRUE, sandbox |-> None, url |-> None]

\* daytona.py:367
SandboxAndUrl(u) == [tuple |-> TRUE, sandbox |-> "sandbox", url |-> u]

\* sandbox.get_preview_link(port).url
PreviewUrl(port) == IF port = AppPort THEN "url3000" ELSE "url22222"

(* ------------------------------- Init --------------------------------- *)

HandlerInit ==
    /\ hpc = "idle"
    /\ msg = NoMsg
    /\ query = <<>>
    /\ dispatched = FALSE
    /\ reply = NoReply
    /\ hexc = None
    /\ sent = <<>>

JobsInit ==
    /\ jpc = "idle"
    /\ jresult = Unset

\* no call yet
NoCall ==
    [pc |-> "idle", exc |-> None, result |-> NoResult, sandbox |-> "none",
     jobs |-> Unset, installIdx |-> 0, url |-> None, terminal |-> None,
     ready |-> FALSE, requests |-> 0, sleeps |-> 0, first200 |-> 0,
     deletes |-> 0, calls |-> <<>>, installs |-> <<>>]

ProvInit == prov = NoCall

\* main() is not running (the process is the agent)
NoMain ==
    [pc |-> "off", line |-> <<>>, user_input |-> <<>>, exc |-> None,
     printed |-> None]

\* no pure call under study
NoPure == [pc |-> "off", arg |-> <<>>, out |-> <<>>]

\* no concurrent provisioning under study
NoConc == [pc |-> "off"]

\* the agent process (agent.py): the handler is idle
Init ==
    /\ apiKey \in BOOLEAN
    /\ HandlerInit
    /\ JobsInit
    /\ ProvInit
    /\ cli = NoMain
    /\ pure = NoPure
    /\ conc = NoConc

(* --------------------------- handle_message --------------------------- *)

\* the message loop hands the handler an inbound ChatMessage
Receive(id, content) ==
    /\ hpc = "idle"
    /\ msg' = [msg_id |-> id, content |-> content]
    /\ hpc' = "ack"
    /\ UNCHANGED <<apiKey, xvars, query, dispatched, reply, hexc, sent, jvars, pvars>>

\* the acknowledgement not sent before the text is read
SendAck_Late ==
    /\ hpc = "ack"
    /\ hpc' = "extract"
    /\ UNCHANGED <<apiKey, xvars, msg, query, dispatched, reply, hexc, sent, jvars, pvars>>

\* agent.py:28-31
SendAck ==
    /\ hpc = "ack"
    /\ sent' = Append(sent, AckFor(msg))
    /\ hpc' = "extract"
    /\ UNCHANGED <<apiKey, xvars, msg, query, dispatched, reply, hexc, jvars, pvars>>

\* agent.py:33-38
Extract ==
    /\ hpc = "extract"
    /\ query' = Strip(TextOf(msg.content))
    /\ hpc' = "validate"
    /\ UNCHANGED <<apiKey, xvars, msg, dispatched, reply, hexc, sent, jvars, pvars>>

\* the return after the usage hint left out: the handler goes on to dispatch
RejectShort_NoReturn ==
    /\ hpc = "validate"
    /\ TooShort(query)
    /\ sent' = Append(sent, Chat(Hint))
    /\ dispatched' = TRUE
    /\ prov' = [prov EXCEPT !.pc = "start"]
    /\ jpc' = "running"
    /\ hpc' = "await"
    /\ UNCHANGED <<apiKey, xvars, msg, query, reply, hexc, jresult>>

\* agent.py:40-54  the usage hint, and return
RejectShort ==
    /\ hpc = "validate"
    /\ TooShort(query)
    /\ sent' = Append(sent, Chat(Hint))
    /\ hpc' = "done"
    /\ UNCHANGED <<apiKey, xvars, msg, query, dispatched, reply, hexc, jvars, pvars>>

\* agent.py:56-59  both tasks are submitted to the executor.  The listing
\* API's answers do not depend on the query in this model, and neither the
\* content nor the query is read again: both are dropped here
Dispatch ==
    /\ hpc = "validate"
    /\ ~TooShort(query)
    /\ dispatched' = TRUE
    /\ prov' = [prov EXCEPT !.pc = "start"]
    /\ jpc' = "running"
    /\ hpc' = "await"
    /\ msg' = [msg EXCEPT !.content = <<>>]
    /\ query' = <<>>
    /\ UNCHANGED <<apiKey, xvars, reply, hexc, sent, jresult>>

\* agent.py:60  asyncio.gather(sandbox_task, jobs_task): the first exception
\* of a task is raised to the awaiter at once; otherwise both results
GatherOutcome(p, j) ==
    IF p = "raised" THEN "raise"
    ELSE IF p = "returned" /\ j = "returned" THEN "results"
    ELSE "pending"

\* no except clause: the exception leaves the handler
Except_Propagates(e) == [hpc |-> "propagated", reply |-> NoReply, hexc |-> e]

\* agent.py:76-77  except Exception as e: reply = f"Error: {str(e)}"
Except(e) == [hpc |-> "reply", reply |-> ErrorReply(e), hexc |-> e]

\* agent.py:60  the await raises
GatherRaise ==
    /\ hpc = "await"
    /\ GatherOutcome(prov.pc, jpc) = "raise"
    /\ hpc' = Except(prov.exc).hpc
    /\ reply' = Except(prov.exc).reply
    /\ hexc' = Except(prov.exc).hexc
    /\ UNCHANGED <<apiKey, xvars, msg, query, dispatched, sent, jvars, pvars>>

\* agent.py:60  the await returns both results
GatherResults ==
    /\ hpc = "await"
    /\ GatherOutcome(prov.pc, jpc) = "results"
    /\ hpc' = "compose"
    /\ UNCHANGED <<apiKey, xvars, msg, query, dispatched, reply, hexc, sent, jvars, pvars>>

\* agent.py:62  _, url = sandbox_result if isinstance(sandbox_result, tuple)
\* else (None, None)
UrlOf(result) == IF result.tuple THEN result.url ELSE None

\* agent.py:62-75
Compose ==
    /\ hpc = "compose"
    /\ IF Truthy(jresult) /\ FormatRaises(jresult, TopResults)
       THEN /\ hpc' = Except("format").hpc
            /\ reply' = Except("format").reply
            /\ hexc' = Except("format").hexc
       ELSE /\ hpc' = "reply"
            /\ reply' = ResultReply(UrlOf(prov.result),
                                     IF Truthy(jresult) THEN TopEntries(jresult)
                                     ELSE <<>>)
            /\ hexc' = hexc
    /\ UNCHANGED <<apiKey, xvars, msg, query, dispatched, sent, jvars, pvars>>

\* agent.py:79-86
SendReply ==
    /\ hpc = "reply"
    /\ sent' = Append(sent, Chat(reply))
    /\ hpc' = "done"
    /\ UNCHANGED <<apiKey, xvars, msg, query, dispatched, reply, hexc, jvars, pvars>>

\* the handler returns to the message loop; its locals and its tasks are
\* unreferenced from here on
Return ==
    /\ hpc = "done"
    /\ hpc' = "idle"
    /\ msg' = NoMsg
    /\ query' = <<>>
    /\ dispatched' = FALSE
    /\ reply' = NoReply
    /\ hexc' = None
    /\ sent' = <<>>
    /\ jpc' = "idle"
    /\ jresult' = Unset
    /\ prov' = NoCall
    /\ UNCHANGED <<apiKey, xvars>>

(* ------------------------------ jobs_task ----------------------------- *)

\* agent.py:59  JobSearcher().search_jobs(query, 1) in the executor
JobsReturn(resp) ==
    /\ jpc = "running"
    /\ jresult' = SearchJobs(resp)
    /\ jpc' = "returned"
    /\ UNCHANGED <<apiKey, xvars, hvars, pvars>>

(* ----------------- sandbox_task: run_job_search_sandbox ---------------- *)

\* a remote call is recorded when it is issued, whether it returns or raises
Called(p, name) == [p EXCEPT !.calls = Append(@, name)]

\* an exception leaves the function
Raised(p, e) == [p EXCEPT !.pc = "raised", !.exc = e]

\* daytona.py:253, 258, 306, 315  the steps after the creation that are in
\* no try block: their exception leaves the provisioner
GatingSteps == {"upload", "session", "launch", "preview"}

\* the credential check left out
KeyMissing_Never(key) == FALSE

\* daytona.py:230  if not daytona_api_key
KeyMissing(key) == ~key

\* daytona.py:229-232
ProvCheckKey ==
    /\ prov.pc = "start"
    /\ prov' = IF KeyMissing(apiKey)
               THEN [prov EXCEPT !.pc = "returned", !.result = NoResult]
               ELSE [prov EXCEPT !.pc = "create"]
    /\ UNCHANGED <<apiKey, xvars, hvars, jvars>>

\* daytona.py:234-238  daytona.create()
ProvCreate(ok) ==
    /\ prov.pc = "create"
    /\ prov' = IF ok
               THEN [Called(prov, "create") EXCEPT !.sandbox = "live", !.pc = "search"]
               ELSE Raised(Called(prov, "create"), "create")
    /\ UNCHANGED <<apiKey, xvars, hvars, jvars>>

\* the empty list taken for a result
AfterSearch_AlwaysSite(jobs) == "site"

\* daytona.py:245  if jobs: ... else: ...
AfterSearch(jobs) == IF Truthy(jobs) THEN "site" ELSE "delete"

\* daytona.py:241-245  searcher.search_jobs(user_prompt, num_pages=1)
ProvSearch(resp) ==
    /\ prov.pc = "search"
    /\ prov' = [Called(prov, "search") EXCEPT
                    !.jobs = SearchJobs(resp),
                    !.pc = AfterSearch(SearchJobs(resp))]
    /\ UNCHANGED <<apiKey, xvars, hvars, jvars>>

\* daytona.py:368-371  sandbox.delete(); return None, None
ProvNoJobs ==
    /\ prov.pc = "delete"
    /\ prov' = [Called(prov, "delete") EXCEPT
                    !.sandbox = "deleted",
                    !.deletes = @ + 1,
                    !.result = NoneNone,
                    !.pc = "returned"]
    /\ UNCHANGED <<apiKey, xvars, hvars, jvars>>

\* daytona.py:249  create_flask_app(jobs) formats jobs[:10]
ProvSite ==
    /\ prov.pc = "site"
    /\ prov' = IF FormatRaises(prov.jobs, SiteListings)
               THEN Raised(prov, "format")
               ELSE [prov EXCEPT !.pc = "upload"]
    /\ UNCHANGED <<apiKey, xvars, hvars, jvars>>

\* daytona.py:253  sandbox.fs.upload_file(flask_code.encode(), "app.py")
ProvUpload(ok) ==
    /\ prov.pc = "upload"
    /\ prov' = IF ok
               THEN [Called(prov, "upload") EXCEPT !.pc = "session"]
               ELSE Raised(Called(prov, "upload"), "upload")
    /\ UNCHANGED <<apiKey, xvars, hvars, jvars>>

\* daytona.py:257-258  sandbox.process.create_session(exec_session_id)
ProvSession(ok) ==
    /\ prov.pc = "session"
    /\ prov' = IF ok
               THEN [Called(prov, "session") EXCEPT !.pc = "install"]
               ELSE Raised(Called(prov, "session"), "session")
    /\ UNCHANGED <<apiKey, xvars, hvars, jvars>>

\* an install attempt: install_cmds[cmd] was executed and returned (ok) or
\* raised
Attempted(p, ok) ==
    [Called(p, "install") EXCEPT
        !.installs = Append(@, [cmd |-> p.installIdx + 1, ok |-> ok]),
        !.installIdx = @ + 1]

\* the break left out: the loop ends with the list only
ProvInstall_NoBreak(ok) ==
    /\ prov.pc = "install"
    /\ prov' = IF prov.installIdx + 1 = NumInstallCmds
               THEN [Attempted(prov, ok) EXCEPT !.pc = "diag_ls"]
               ELSE Attempted(prov, ok)
    /\ UNCHANGED <<apiKey, xvars, hvars, jvars>>

\* daytona.py:267-279  for cmd in install_cmds: try: ...; break
\*                     except Exception: continue
ProvInstall(ok) ==
    /\ prov.pc = "install"
    /\ prov' = IF ok \/ prov.installIdx + 1 = NumInstallCmds
               THEN [Attempted(prov, ok) EXCEPT !.pc = "diag_ls"]
               ELSE Attempted(prov, ok)
    /\ UNCHANGED <<apiKey, xvars, hvars, jvars>>

\* the statement after a diagnostic
AfterStep(name) ==
    CASE name = "diag_ls" -> "diag_python"
      [] name = "diag_python" -> "launch"
      [] name = "diag_ps" -> "diag_tail"
      [] name = "diag_tail" -> "return"

\* the except clause of a diagnostic
HandlerOf(name) ==
    CASE name = "diag_ls" -> "diag_ls_except"
      [] name = "diag_python" -> "diag_python_except"
      [] name = "diag_ps" -> "diag_ps_except"
      [] name = "diag_tail" -> "diag_tail_except"

Diagnostics == {"diag_ls", "diag_python", "diag_ps", "diag_tail"}

Handlers == {HandlerOf(name) : name \in Diagnostics}

\* the diagnostic whose except clause this is
GuardedBy(handler) == CHOOSE name \in Diagnostics : HandlerOf(name) = handler

\* the exception of a diagnostic left uncaught
Diagnostic_Fatal(p, name, ok) ==
    IF ok THEN [Called(p, name) EXCEPT !.pc = AfterStep(name)]
    ELSE Raised(Called(p, name), name)

\* try: sandbox.process.execute_session_command(...) except Exception: pass
Diagnostic(p, name, ok) ==
    IF ok THEN [Called(p, name) EXCEPT !.pc = AfterStep(name)]
    ELSE [Called(p, name) EXCEPT !.pc = HandlerOf(name)]

\* daytona.py:281-289  ls -l app.py
ProvDiagLs(ok) ==
    /\ prov.pc = "diag_ls"
    /\ prov' = Diagnostic(prov, "diag_ls", ok)
    /\ UNCHANGED <<apiKey, xvars, hvars, jvars>>

\* daytona.py:293-301  interpreter details
ProvDiagPython(ok) ==
    /\ prov.pc = "diag_python"
    /\ prov' = Diagnostic(prov, "diag_python", ok)
    /\ UNCHANGED <<apiKey, xvars, hvars, jvars>>

\* daytona.py:290-291, 302-303, 346-347, 356-357  except Exception: pass
ProvPass ==
    /\ prov.pc \in Handlers
    /\ prov' = [prov EXCEPT !.pc = AfterStep(GuardedBy(prov.pc))]
    /\ UNCHANGED <<apiKey, xvars, hvars, jvars>>

\* the launch command issued a second time
ProvLaunch_Twice(ok) ==
    /\ prov.pc = "launch"
    /\ prov' = IF ok
               THEN [Called(Called(prov, "launch"), "launch") EXCEPT
                        !.pc = "preview"]
               ELSE Raised(Called(prov, "launch"), "launch")
    /\ UNCHANGED <<apiKey, xvars, hvars, jvars>>

\* daytona.py:305-312  python3 app.py || python app.py, run_async=True
ProvLaunch(ok) ==
    /\ prov.pc = "launch"
    /\ prov' = IF ok
               THEN [Called(prov, "launch") EXCEPT !.pc = "preview"]
               ELSE Raised(Called(prov, "launch"), "launch")
    /\ UNCHANGED <<apiKey, xvars, hvars, jvars>>

\* daytona.py:315, 323  preview_info = sandbox.get_preview_link(3000);
\* url = preview_info.url
ProvPreview(ok) ==
    /\ prov.pc = "preview"
    /\ prov' = IF ok
               THEN [Called(prov, "preview") EXCEPT
                        !.url = PreviewUrl(AppPort), !.pc = "terminal"]
               ELSE Raised(Called(prov, "preview"), "preview")
    /\ UNCHANGED <<apiKey, xvars, hvars, jvars>>

\* daytona.py:316-320  sandbox.get_preview_link(22222), failure swallowed
ProvTerminal(ok) ==
    /\ prov.pc = "terminal"
    /\ prov' = [Called(prov, "terminal") EXCEPT
                    !.terminal = IF ok THEN PreviewUrl(TerminalPort) ELSE None,
                    !.pc = "poll"]
    /\ UNCHANGED <<apiKey, xvars, hvars, jvars>>

\* what requests.get(health_url, timeout=2) can do
PollAnswers ==
    {[kind |-> "response", status |-> HttpOk],
     [kind |-> "response", status |-> 502],
     [kind |-> "error", status |-> 0]}

\* daytona.py:329  r.status_code == 200, reached only when get returned
Is200(answer) == answer.kind = "response" /\ answer.status = HttpOk

\* daytona.py:337  if not ready
AfterLoop(isReady) == IF isReady THEN "return" ELSE "diag_ps"

\* the break left out: the loop sleeps and goes on after a 200
AfterRequest_NoBreak(ok200) == [ready |-> ok200, pc |-> "sleep"]

\* daytona.py:329-334  ready = True; break  /  time.sleep(1)
AfterRequest(ok200) ==
    IF ok200 THEN [ready |-> TRUE, pc |-> AfterLoop(TRUE)]
    ELSE [ready |-> FALSE, pc |-> "sleep"]

\* one iteration too many
LoopContinues_OffByOne(n) == n <= PollAttempts

\* daytona.py:326  for _ in range(45): another iteration after n of them
LoopContinues(n) == n < PollAttempts

\* daytona.py:327-333  one liveness request
ProvPoll(answer) ==
    /\ prov.pc = "poll"
    /\ prov' = [prov EXCEPT
                    !.requests = @ + 1,
                    !.first200 = IF @ = 0 /\ Is200(answer)
                                 THEN prov.requests + 1 ELSE @,
                    !.ready = AfterRequest(Is200(answer)).ready,
                    !.pc = AfterRequest(Is200(answer)).pc]
    /\ UNCHANGED <<apiKey, xvars, hvars, jvars>>

\* daytona.py:334, 326  time.sleep(1), then the next iteration or the end
ProvSleep ==
    /\ prov.pc = "sleep"
    /\ prov' = [prov EXCEPT
                    !.sleeps = @ + 1,
                    !.pc = IF LoopContinues(prov.requests) THEN "poll"
                           ELSE AfterLoop(prov.ready)]
    /\ UNCHANGED <<apiKey, xvars, hvars, jvars>>

\* daytona.py:337-345  ps aux
ProvDiagPs(ok) ==
    /\ prov.pc = "diag_ps"
    /\ prov' = Diagnostic(prov, "diag_ps", ok)
    /\ UNCHANGED <<apiKey, xvars, hvars, jvars>>

\* daytona.py:348-355  tail of the log
ProvDiagTail(ok) ==
    /\ prov.pc = "diag_tail"
    /\ prov' = Diagnostic(prov, "diag_tail", ok)
    /\ UNCHANGED <<apiKey, xvars, hvars, jvars>>

\* the URL withheld when the poll never saw a 200
ProvReturn_NoneWhenUnready ==
    /\ prov.pc = "return"
    /\ prov' = [prov EXCEPT
                    !.result = SandboxAndUrl(IF prov.ready THEN prov.url ELSE None),
                    !.pc = "returned"]
    /\ UNCHANGED <<apiKey, xvars, hvars, jvars>>

\* daytona.py:359-367  return sandbox, url
ProvReturn ==
    /\ prov.pc = "return"
    /\ prov' = [prov EXCEPT !.result = SandboxAndUrl(prov.url), !.pc = "returned"]
    /\ UNCHANGED <<apiKey, xvars, hvars, jvars>>

(* -------------------------------- Next -------------------------------- *)

HandlerStep ==
    \/ hpc = "idle" /\ \E id \in MsgIds, content \in Contents : Receive(id, content)
    \/ SendAck
    \/ Extract
    \/ RejectShort
    \/ Dispatch
    \/ GatherRaise
    \/ GatherResults
    \/ Compose
    \/ SendReply
    \/ Return

JobsStep == \E resp \in ApiResponses : JobsReturn(resp)

ProvStep ==
    \/ ProvCheckKey
    \/ \E ok \in BOOLEAN : ProvCreate(ok)
    \/ \E resp \in ApiResponses : ProvSearch(resp)
    \/ ProvNoJobs
    \/ ProvSite
    \/ \E ok \in BOOLEAN : ProvUpload(ok)
    \/ \E ok \in BOOLEAN : ProvSession(ok)
    \/ \E ok \in BOOLEAN : ProvInstall(ok)
    \/ \E ok \in BOOLEAN : ProvDiagLs(ok)
    \/ \E ok \in BOOLEAN : ProvDiagPython(ok)
    \/ \E ok \in BOOLEAN : ProvLaunch(ok)
    \/ \E ok \in BOOLEAN : ProvPreview(ok)
    \/ \E ok \in BOOLEAN : ProvTerminal(ok)
    \/ \E answer \in PollAnswers : ProvPoll(answer)
    \/ ProvSleep
    \/ \E ok \in BOOLEAN : ProvDiagPs(ok)
    \/ \E ok \in BOOLEAN : ProvDiagTail(ok)
    \/ ProvPass
    \/ ProvReturn

Next == HandlerStep \/ JobsStep \/ ProvStep

Spec == Init /\ [][Next]_vars

\* every started step of the handler and of its tasks is eventually taken:
\* each external call returns or raises
FairSpec ==
    Spec /\ WF_vars(HandlerStep) /\ WF_vars(JobsStep) /\ WF_vars(ProvStep)

(* ------------------------- daytona.py: main() -------------------------- *)

\* what the user can type at the prompt
InputLines == PartTexts

\* daytona.py:378  if user_input
NonEmpty(s) == s # <<>>

\* daytona.py:379-380  sandbox, preview_url = run_job_search_sandbox(...);
\* if sandbox.  Unpacking None raises TypeError
Unpack(result) ==
    IF ~result.tuple THEN [pc |-> "raised", exc |-> "TypeError"]
    ELSE IF result.sandbox # None THEN [pc |-> "blocked", exc |-> None]
    ELSE [pc |-> "returned", exc |-> None]

\* the CLI process (python daytona.py): main() is at its prompt
MainInit ==
    /\ apiKey \in BOOLEAN
    /\ HandlerInit
    /\ JobsInit
    /\ ProvInit
    /\ cli = [pc |-> "input", line |-> <<>>, user_input |-> <<>>,
              exc |-> None, printed |-> None]
    /\ pure = NoPure
    /\ conc = NoConc

\* daytona.py:376-379, 390-391  input(...).strip(); the provisioner is
\* called, or the validation message printed
MainInput(line) ==
    /\ cli.pc = "input"
    /\ IF NonEmpty(Strip(line))
       THEN /\ cli' = [cli EXCEPT !.line = line, !.user_input = Strip(line),
                                  !.pc = "call"]
            /\ prov' = [prov EXCEPT !.pc = "start"]
       ELSE /\ cli' = [cli EXCEPT !.line = line, !.user_input = Strip(line),
                                  !.printed = "invalid", !.pc = "returned"]
            /\ prov' = prov
    /\ UNCHANGED <<apiKey, hvars, jvars, pure, conc>>

\* daytona.py:379-381  the provisioner has returned
MainUnpack ==
    /\ cli.pc = "call"
    /\ prov.pc = "returned"
    /\ cli' = [cli EXCEPT !.pc = Unpack(prov.result).pc,
                          !.exc = Unpack(prov.result).exc]
    /\ UNCHANGED <<apiKey, hvars, jvars, prov, pure, conc>>

\* daytona.py:379  an exception of the provisioner leaves main
MainPropagate ==
    /\ cli.pc = "call"
    /\ prov.pc = "raised"
    /\ cli' = [cli EXCEPT !.pc = "raised", !.exc = prov.exc]
    /\ UNCHANGED <<apiKey, hvars, jvars, prov, pure, conc>>

\* Ctrl+C while the provisioner runs: KeyboardInterrupt is no Exception,
\* no handler of the provisioner catches it
ProvInterrupt ==
    /\ cli.pc = "call"
    /\ prov.pc \notin {"returned", "raised"}
    /\ prov' = Raised(prov, "KeyboardInterrupt")
    /\ UNCHANGED <<apiKey, hvars, jvars, xvars>>

\* daytona.py:382-387  Ctrl+C in the sleep loop
MainInterrupt ==
    /\ cli.pc = "blocked"
    /\ cli' = [cli EXCEPT !.pc = "cleanup"]
    /\ UNCHANGED <<apiKey, hvars, jvars, prov, pure, conc>>

\* the clean-up without the delete
MainCleanup_NoDelete ==
    /\ cli.pc = "cleanup"
    /\ cli' = [cli EXCEPT !.printed = "Done!", !.pc = "returned"]
    /\ UNCHANGED <<apiKey, hvars, jvars, prov, pure, conc>>

\* daytona.py:387-389  sandbox.delete()
MainCleanup ==
    /\ cli.pc = "cleanup"
    /\ prov' = [Called(prov, "delete") EXCEPT
                    !.sandbox = "deleted", !.deletes = @ + 1]
    /\ cli' = [cli EXCEPT !.printed = "Done!", !.pc = "returned"]
    /\ UNCHANGED <<apiKey, hvars, jvars, pure, conc>>

MainStep ==
    \/ cli.pc = "input" /\ \E line \in InputLines : MainInput(line)
    \/ MainUnpack
    \/ MainPropagate
    \/ ProvInterrupt
    \/ MainInterrupt
    \/ MainCleanup

CliNext == MainStep \/ ProvStep

CliSpec == MainInit /\ [][CliNext]_vars

(* --------------- daytona.py: JobSearcher._extract_location -------------- *)

\* pieces a prompt is put together from
MaxPieces == 2

UpperLetters ==
    <<"A", "B", "C", "D", "E", "F", "G", "H", "I", "J", "K", "L", "M">>
        \o <<"N", "O", "P", "Q", "R", "S", "T", "U", "V", "W", "X", "Y", "Z">>

LowerLetters ==
    <<"a", "b", "c", "d", "e", "f", "g", "h", "i", "j", "k", "l", "m">>
        \o <<"n", "o", "p", "q", "r", "s", "t", "u", "v", "w", "x", "y", "z">>

\* str.lower() and str.upper(), character by character
LowerChar(c) ==
    IF \E i \in 1..Len(UpperLetters) : UpperLetters[i] = c
    THEN LowerLetters[CHOOSE i \in 1..Len(UpperLetters) : UpperLetters[i] = c]
    ELSE c

UpperChar(c) ==
    IF \E i \in 1..Len(LowerLetters) : LowerLetters[i] = c
    THEN UpperLetters[CHOOSE i \in 1..Len(LowerLetters) : LowerLetters[i] = c]
    ELSE c

LowerStr(t) == [i \in 1..Len(t) |-> LowerChar(t[i])]

UpperStr(t) == [i \in 1..Len(t) |-> UpperChar(t[i])]

\* str.replace(' ', '_')
Underscored(t) == [i \in 1..Len(t) |-> IF t[i] = " " THEN "_" ELSE t[i]]

\* sub in t
Contains(t, sub) ==
    \E k \in 0..(Len(t) - Len(sub)) : SubSeq(t, k + 1, k + Len(sub)) = sub

\* daytona.py:47-48  locations
Locations ==
    <<<<"n", "e", "w", " ", "y", "o", "r", "k">>,
      <<"s", "a", "n", " ", "f", "r", "a", "n", "c", "i", "s", "c", "o">>,
      <<"c", "h", "i", "c", "a", "g", "o">>,
      <<"l", "o", "s", " ", "a", "n", "g", "e", "l", "e", "s">>,
      <<"s", "e", "a", "t", "t", "l", "e">>,
      <<"b", "o", "s", "t", "o", "n">>,
      <<"a", "u", "s", "t", "i", "n">>,
      <<"d", "e", "n", "v", "e", "r">>,
      <<"m", "i", "a", "m", "i">>,
      <<"r", "e", "m", "o", "t", "e">>,
      <<"a", "n", "y", "w", "h", "e", "r", "e">>,
      <<"u", "s">>,
      <<"u", "k">>>>

RECURSIVE FirstLocation(_, _)
\* daytona.py:50-53  for loc in locations: if loc in text_lower: return
\* loc.replace(' ', '_').upper(); return 'US'
FirstLocation(locs, text_lower) ==
    IF locs = <<>> THEN <<"U", "S">>
    ELSE IF Contains(text_lower, Head(locs))
         THEN UpperStr(Underscored(Head(locs)))
         ELSE FirstLocation(Tail(locs), text_lower)

\* the text matched as typed, not lower-cased
ExtractLocation_CaseSensitive(text) == FirstLocation(Locations, text)

\* daytona.py:45-53  JobSearcher._extract_location
ExtractLocation(text) == FirstLocation(Locations, LowerStr(text))

\* words and fragments of prompts: every location in some spelling, parts of
\* locations, words that hold a location inside, words that hold none
Pieces ==
    {<<"N", "e", "w", " ", "Y", "o", "r", "k">>,
     <<"s", "a", "n", " ", "f", "r", "a", "n", "c", "i", "s", "c", "o">>,
     <<"C", "H", "I", "C", "A", "G", "O">>,
     <<"L", "o", "s", " ", "A", "n", "g", "e", "l", "e", "s">>,
     <<"s", "e", "a", "t", "t", "l", "e">>,
     <<"B", "o", "s", "t", "o", "n">>,
     <<"A", "U", "S", "T", "I", "N">>,
     <<"d", "e", "n", "v", "e", "r">>,
     <<"M", "i", "a", "m", "i">>,
     <<"R", "e", "m", "o", "t", "e">>,
     <<"a", "n", "y", "w", "h", "e", "r", "e">>,
     <<"U", "S">>,
     <<"u", "k">>,
     <<"n", "e", "w">>,
     <<" ", "y", "o", "r", "k">>,
     <<"x">>,
     <<" ", "i", "n", " ">>,
     <<"H", "o", "u", "s", "t", "o", "n">>,
     <<"N", "e", "w", "Y", "o", "r", "k">>,
     <<"a">>}

RECURSIVE Concat(_)
Concat(ps) == IF ps = <<>> THEN <<>> ELSE Head(ps) \o Concat(Tail(ps))

Prompts == {Concat(ps) : ps \in UNION {[1..k -> Pieces] : k \in 0..MaxPieces}}

\* a call of _extract_location on a prompt
LocInit ==
    /\ apiKey \in BOOLEAN
    /\ HandlerInit
    /\ JobsInit
    /\ ProvInit
    /\ cli = NoMain
    /\ conc = NoConc
    /\ \E t \in Prompts : pure = [pc |-> "called", arg |-> t, out |-> <<>>]

\* daytona.py:45-53  the call returns
ReturnLocation ==
    /\ pure.pc = "called"
    /\ pure' = [pure EXCEPT !.out = ExtractLocation(pure.arg), !.pc = "returned"]
    /\ UNCHANGED <<apiKey, hvars, jvars, prov, cli, conc>>

LocNext == ReturnLocation

LocSpec == LocInit /\ [][LocNext]_vars

(* ---------------- daytona.py: JobSearcher.format_job_listing ------------ *)

\* longest description of a raw listing
MaxDescLen == 202

\* daytona.py:122  [:200]
DescLimit == 200

\* the keys format_job_listing reads
SimpleKeys ==
    {"job_title", "employer_name", "job_location", "job_employment_type",
     "job_apply_link"}

SiteKeys == {"employer_website", "employer_url"}

ListingKeys == SimpleKeys \cup SiteKeys \cup {"job_description"}

\* a description of the API: null or a text
NullDesc == [t |-> "null", s |-> <<>>]

DescChar(i) == <<"a", "b", "c", "d", "e", "f", "g">>[(i % 7) + 1]

TextDesc(n) == [t |-> "str", s |-> [i \in 1..n |-> DescChar(i)]]

Descriptions == {NullDesc} \cup {TextDesc(n) : n \in 0..MaxDescLen}

\* raw listings: a mapping that has some of the keys; the value of a key the
\* mapping lacks is never read
RawValues ==
    [job_title : {"Engineer"}, employer_name : {"Acme"},
     job_location : {"Austin"}, job_employment_type : {"FULLTIME"},
     job_apply_link : {"https://apply"},
     employer_website : {None, "", "https://site"},
     employer_url : {None, "", "https://url"},
     job_description : Descriptions]

RawListings ==
    {job \in [has : SUBSET ListingKeys, val : RawValues] :
        /\ "employer_website" \notin job.has => job.val.employer_website = None
        /\ "employer_url" \notin job.has => job.val.employer_url = None
        /\ "job_description" \notin job.has =>
              job.val.job_description = NullDesc}

\* dict.get(key, default)
Get(job, key, default) == IF key \in job.has THEN job.val[key] ELSE default

\* truth value of a text or None
TruthyText(v) == v # None /\ v # ""

\* truth value of a description
TruthyDesc(d) == d.t = "str" /\ d.s # <<>>

\* a or b
Or(a, b) == IF TruthyText(a) THEN a ELSE b

Ellipsis == <<".", ".", ".">>

NoDescription == <<"N", "o", " ", "d", "e", "s", "c", "r", "i", "p", "t", "i", "o", "n">>

\* the description kept whole
FormatDescription_NoTruncate(job) ==
    IF TruthyDesc(Get(job, "job_description", NullDesc))
    THEN Get(job, "job_description", TextDesc(0)).s \o Ellipsis
    ELSE NoDescription

\* daytona.py:122  job.get('job_description', '')[:200] + '...'
\* if job.get('job_description') else 'No description'
FormatDescription(job) ==
    IF TruthyDesc(Get(job, "job_description", NullDesc))
    THEN LET d == Get(job, "job_description", TextDesc(0)).s
         IN  SubSeq(d, 1, Min(DescLimit, Len(d))) \o Ellipsis
    ELSE NoDescription

\* daytona.py:113-123  JobSearcher.format_job_listing
FormatJobListing(job) ==
    [title |-> Get(job, "job_title", "N/A"),
     company |-> Get(job, "employer_name", "N/A"),
     location |-> Get(job, "job_location", "N/A"),
     employment_type |-> Get(job, "job_employment_type", "N/A"),
     apply_link |-> Get(job, "job_apply_link", "#"),
     website |-> Or(Or(Get(job, "employer_website", None),
                       Get(job, "employer_url", None)), ""),
     description |-> FormatDescription(job)]

NoListing == [title |-> None]

\* a call of format_job_listing on a raw listing
FmtInit ==
    /\ apiKey \in BOOLEAN
    /\ HandlerInit
    /\ JobsInit
    /\ ProvInit
    /\ cli = NoMain
    /\ conc = NoConc
    /\ \E job \in RawListings :
          pure = [pc |-> "called", arg |-> job, out |-> NoListing]

\* daytona.py:113-123  the call returns
ReturnListing ==
    /\ pure.pc = "called"
    /\ pure' = [pure EXCEPT !.out = FormatJobListing(pure.arg),
                            !.pc = "returned"]
    /\ UNCHANGED <<apiKey, hvars, jvars, prov, cli, conc>>

FmtNext == ReturnListing

FmtSpec == FmtInit /\ [][FmtNext]_vars

(* ------------- provisioning calls of several inbound messages ----------- *)

\* inbound messages whose provisioning calls overlap
NumCalls == 2

CallIds == 1..NumCalls

\* one message's handler and its provisioning call: the call's locals
\* (sandbox, url: ids of sandboxes of the platform, 0 for None), the value
\* returned and the URL the handler placed in its reply
NoLocals ==
    [pc |-> "start", sandbox |-> 0, tries |-> 0, url |-> 0, result |-> 0,
     reply |-> "none", replyUrl |-> 0]

\* a sandbox of the platform: the call whose daytona.create() made it, the
\* operations issued on it and by which call, whether it was deleted
NewBox(c) == [creator |-> c, ops |-> {}, deleted |-> FALSE]

\* the agent process with all handlers before their provisioning call
ConcInit ==
    /\ apiKey \in BOOLEAN
    /\ HandlerInit
    /\ JobsInit
    /\ ProvInit
    /\ cli = NoMain
    /\ pure = NoPure
    /\ conc = [pc |-> "on", calls |-> [c \in CallIds |-> NoLocals],
               boxes |-> <<>>]

\* one shared variable holding the sandbox made last
SandboxOf_Shared(c) == Len(conc.boxes)

\* daytona.py:238  sandbox is a local variable of the call
SandboxOf(c) == conc.calls[c].sandbox

\* an operation of call c through its sandbox variable
Issue(c, name) ==
    [conc.boxes EXCEPT ![SandboxOf(c)].ops = @ \cup {[name |-> name, by |-> c]}]

\* daytona.py:229-232  the credential check
ConcStart(c) ==
    /\ conc.calls[c].pc = "start"
    /\ conc' = [conc EXCEPT !.calls[c].pc =
                    IF KeyMissing(apiKey) THEN "returned" ELSE "create"]
    /\ UNCHANGED <<apiKey, hvars, jvars, prov, cli, pure>>

\* daytona.py:234-238  daytona.create() returns a sandbox no call has yet
ConcCreate(c, ok) ==
    /\ conc.calls[c].pc = "create"
    /\ conc' = IF ok
               THEN [conc EXCEPT !.boxes = Append(@, NewBox(c)),
                                 !.calls[c].sandbox = Len(conc.boxes) + 1,
                                 !.calls[c].pc = "search"]
               ELSE [conc EXCEPT !.calls[c].pc = "raised"]
    /\ UNCHANGED <<apiKey, hvars, jvars, prov, cli, pure>>

\* daytona.py:241-245  the search and the branch on its result
ConcSearch(c, resp) ==
    /\ conc.calls[c].pc = "search"
    /\ conc' = [conc EXCEPT !.calls[c].pc =
                    IF AfterSearch(SearchJobs(resp)) = "delete" THEN "delete"
                    ELSE IF FormatRaises(SearchJobs(resp), SiteListings)
                         THEN "raised" ELSE "upload"]
    /\ UNCHANGED <<apiKey, hvars, jvars, prov, cli, pure>>

\* the statement after an operation on the sandbox
AfterOp(name) ==
    CASE name = "upload" -> "session"
      [] name = "session" -> "install"
      [] name = "install" -> "diag_ls"
      [] name = "diag_ls" -> "diag_python"
      [] name = "diag_python" -> "launch"
      [] name = "launch" -> "preview"
      [] name = "preview" -> "terminal"
      [] name = "terminal" -> "poll"
      [] name = "diag_ps" -> "diag_tail"
      [] name = "diag_tail" -> "return"

SandboxOps ==
    {"upload", "session", "install", "diag_ls", "diag_python", "launch",
     "preview", "terminal", "diag_ps", "diag_tail"}

\* daytona.py:253-320, 337-357  one operation on the sandbox: upload,
\* session, command execution or preview link; a gating one raises when it
\* fails, an install is tried again with the next command (tries counts the
\* iterations of the install loop and is not read once the loop is left)
ConcOp(c, ok) ==
    LET l == conc.calls[c]
    IN  /\ l.pc \in SandboxOps
        /\ conc' = [conc EXCEPT
              !.boxes = Issue(c, l.pc),
              !.calls[c] =
                 IF ~ok /\ l.pc \in GatingSteps THEN [l EXCEPT !.pc = "raised"]
                 ELSE IF l.pc = "install"
                 THEN IF ok \/ l.tries + 1 = NumInstallCmds
                      THEN [l EXCEPT !.tries = 0, !.pc = "diag_ls"]
                      ELSE [l EXCEPT !.tries = @ + 1]
                 ELSE IF l.pc = "preview"
                 THEN [l EXCEPT !.url = SandboxOf(c), !.pc = "terminal"]
                 ELSE [l EXCEPT !.pc = AfterOp(l.pc)]]
        /\ UNCHANGED <<apiKey, hvars, jvars, prov, cli, pure>>

\* daytona.py:322-337  the poll of the page ends ready or not
ConcPoll(c, isReady) ==
    /\ conc.calls[c].pc = "poll"
    /\ conc' = [conc EXCEPT !.calls[c].pc = AfterLoop(isReady)]
    /\ UNCHANGED <<apiKey, hvars, jvars, prov, cli, pure>>

\* daytona.py:359-367  return sandbox, url
ConcReturn(c) ==
    /\ conc.calls[c].pc = "return"
    /\ conc' = [conc EXCEPT !.calls[c].result = conc.calls[c].url,
                            !.calls[c].pc = "returned"]
    /\ UNCHANGED <<apiKey, hvars, jvars, prov, cli, pure>>

\* daytona.py:368-371  sandbox.delete(); return None, None
ConcDelete(c) ==
    /\ conc.calls[c].pc = "delete"
    /\ conc' = [conc EXCEPT
                    !.boxes = [Issue(c, "delete") EXCEPT
                                  ![SandboxOf(c)].deleted = TRUE],
                    !.calls[c].pc = "returned"]
    /\ UNCHANGED <<apiKey, hvars, jvars, prov, cli, pure>>

\* agent.py:60-77  the handler of the message takes the URL of its own
\* call's result, or reports the exception
ConcReply(c) ==
    /\ conc.calls[c].pc \in {"returned", "raised"}
    /\ conc' = [conc EXCEPT
                    !.calls[c].reply =
                        IF conc.calls[c].pc = "raised" THEN "error"
                        ELSE "results",
                    !.calls[c].replyUrl =
                        IF conc.calls[c].pc = "raised" THEN 0
                        ELSE conc.calls[c].result,
                    !.calls[c].pc = "replied"]
    /\ UNCHANGED <<apiKey, hvars, jvars, prov, cli, pure>>

ConcNext ==
    \E c \in CallIds :
        \/ ConcStart(c)
        \/ \E ok \in BOOLEAN : ConcCreate(c, ok)
        \/ \E resp \in ApiResponses : ConcSearch(c, resp)
        \/ \E ok \in BOOLEAN : ConcOp(c, ok)
        \/ \E isReady \in BOOLEAN : ConcPoll(c, isReady)
        \/ ConcReturn(c)
        \/ ConcDelete(c)
        \/ ConcReply(c)

ConcSpec == ConcInit /\ [][ConcNext]_vars

(* ======================= the provisioner's claims ====================== *)

\* the call has ended, by returning or by raising
ProvEnded == prov.pc \in {"returned", "raised"}

\* the poll loop has been left
PollOver ==
    prov.pc \in {"diag_ps", "diag_ps_except", "diag_tail", "diag_tail_except",
                 "return", "returned"}

\* C1: after an execution of run_job_search_sandbox that returns, or in which
\* a gating step after the creation (upload, session, launch, primary preview
\* link) raises, a sandbox that was created has been deleted or has been
\* returned to the caller as the sandbox reference.
C1_CreatedSandboxDeletedOrReturned ==
    (/\ ProvEnded
     /\ prov.sandbox # "none"
     /\ prov.exc \in GatingSteps \cup {None}) =>
        \/ prov.sandbox = "deleted"
        \/ prov.pc = "returned" /\ prov.result.sandbox = "sandbox"

\* C2: when the provisioner's listing search returns zero listings, the
\* sandbox is deleted exactly once and (None, None) is returned, and the only
\* remote calls of the execution are create, search and delete: no upload,
\* session, install, diagnostics, launch, preview link or liveness request.
C2_ZeroListingsDeletesAndReturnsNone ==
    (prov.jobs # Unset /\ prov.jobs.n = 0) =>
        /\ prov.pc \in {"delete", "returned"}
        /\ prov.requests = 0
        /\ prov.sleeps = 0
        /\ \A i \in 1..Len(prov.calls) : prov.calls[i] \in {"create", "search", "delete"}
        /\ prov.pc = "returned" =>
              /\ prov.calls = <<"create", "search", "delete">>
              /\ prov.deletes = 1
              /\ prov.sandbox = "deleted"
              /\ prov.result = NoneNone

C2_Witness ==
    /\ prov.jobs # Unset
    /\ prov.jobs.n = 0
    /\ prov.pc = "returned"
    /\ prov.deletes = 1

\* C3: if the liveness endpoint first answers 200 on attempt k, exactly k
\* requests are issued and exactly k-1 one-second sleeps are taken: the loop
\* is left with that answer and no further request follows, so a 200 on the
\* 10th attempt costs at most 10 seconds of sleep.
C3_PollStopsAtFirst200 ==
    prov.first200 > 0 =>
        /\ prov.first200 <= 45
        /\ prov.requests = prov.first200
        /\ prov.sleeps = prov.first200 - 1
        /\ prov.ready
        /\ prov.pc \in {"return", "returned"}
        /\ prov.first200 = 10 => prov.sleeps * SleepSeconds <= 10

C3_Witness ==
    /\ prov.first200 = 10
    /\ prov.requests = 10
    /\ prov.sleeps = 9
    /\ prov.pc = "returned"

\* C4: if the liveness endpoint never answers 200, the poll loop issues
\* exactly 45 requests and stops, and the provisioner still returns the
\* sandbox with the resolved preview URL, which is not None.
C4_PollGivesUpAfter45 ==
    /\ prov.requests <= 45
    /\ (PollOver /\ prov.url # None /\ prov.first200 = 0) =>
          /\ prov.requests = 45
          /\ ~prov.ready
          /\ prov.pc = "returned" =>
                /\ prov.result = SandboxAndUrl(PreviewUrl(AppPort))
                /\ prov.result.url # None
                /\ prov.result.sandbox # None

C4_Witness ==
    /\ prov.pc = "returned"
    /\ prov.first200 = 0
    /\ prov.requests = 45
    /\ prov.result.url = PreviewUrl(AppPort)

\* C10: when the sandbox-platform credential is absent, the provisioner
\* returns its failure result (None, no tuple) at once: no sandbox is
\* created and no remote call, liveness request or delete is made.
C10_NoKeyNoSandbox ==
    ~apiKey =>
        /\ prov.pc \in {"idle", "start", "returned"}
        /\ prov.calls = <<>>
        /\ prov.sandbox = "none"
        /\ prov.jobs = Unset
        /\ prov.requests = 0
        /\ prov.deletes = 0
        /\ prov.pc = "returned" => prov.result = NoResult

C10_Witness ==
    /\ ~apiKey
    /\ prov.pc = "returned"
    /\ prov.result = NoResult

(* ========================= the handler's claims ======================== *)

\* the messages of one type sent so far
NumSent(type) == Cardinality({i \in 1..Len(sent) : sent[i].type = type})

\* the length of the concatenated text of the text parts between its first
\* and its last character that is not white space
TrimmedLength(content) ==
    LET t == TextOf(content)
        inked == {i \in 1..Len(t) : t[i] # " "}
    IN  IF inked = {} THEN 0
        ELSE (CHOOSE i \in inked : \A j \in inked : j <= i)
                 - (CHOOSE i \in inked : \A j \in inked : i <= j) + 1

\* C5: for every inbound message, too short, valid and succeeding, or valid
\* with a failing workflow, the handler sends exactly one acknowledgement and
\* exactly one follow-up ChatMessage: it never sends two of either, and, every
\* external call returning or raising, it reaches its end having sent both.
C5_OneAckOneReply ==
    /\ [](/\ NumSent("ack") <= 1
          /\ NumSent("chat") <= 1
          /\ hpc = "done" => NumSent("ack") = 1 /\ NumSent("chat") = 1)
    /\ (hpc = "ack") ~> (hpc = "done")

C5_Witness ==
    /\ hpc = "done"
    /\ dispatched
    /\ prov.pc = "raised"
    /\ NumSent("ack") = 1
    /\ NumSent("chat") = 1

\* C6: the acknowledgement carrying the inbound message's msg_id is the first
\* thing the handler sends, and it is sent before the text is extracted or
\* validated and before either task is started, whatever the content.
C6_AckFirst ==
    /\ hpc \in {"idle", "ack"} =>
          /\ sent = <<>>
          /\ query = <<>>
          /\ ~dispatched
          /\ prov = NoCall
          /\ jpc = "idle"
    /\ hpc \in {"extract", "validate"} => sent = <<Ack(msg.msg_id)>>
    /\ hpc \notin {"idle", "ack"} => Len(sent) >= 1 /\ sent[1] = Ack(msg.msg_id)
    /\ (dispatched \/ prov # NoCall \/ jpc # "idle") =>
          Len(sent) >= 1 /\ sent[1].type = "ack"

C6_Witness ==
    /\ hpc = "extract"
    /\ msg.content # <<>>
    /\ query = <<>>
    /\ sent = <<Ack(msg.msg_id)>>
    /\ prov = NoCall

\* C7: when the concatenated text of the text parts is, after trimming, empty
\* or shorter than 3 characters, the handler replies with the usage hint and
\* starts neither task; when it has 3 or more characters it starts both.
\* Nothing but that branch starts a task.
C7_ShortQueryRejected ==
    [][/\ (hpc = "validate" /\ hpc' # "validate") =>
             IF TrimmedLength(msg.content) < 3
             THEN /\ hpc' = "done"
                  /\ sent' = Append(sent, Chat(Hint))
                  /\ ~dispatched'
                  /\ prov' = NoCall
                  /\ jpc' = "idle"
             ELSE /\ dispatched'
                  /\ prov'.pc = "start"
                  /\ jpc' = "running"
                  /\ sent' = sent
       /\ (~dispatched /\ dispatched') => hpc = "validate"
       /\ ~dispatched' => prov' = NoCall /\ jpc' = "idle"]_vars

C7_Witness ==
    /\ hpc = "done"
    /\ TrimmedLength(msg.content) = 2
    /\ sent = <<Ack(msg.msg_id), Chat(Hint)>>
    /\ ~dispatched
    /\ prov = NoCall
    /\ jpc = "idle"

\* C8: both tasks of a handler have completed, by returning or by raising,
\* before the follow-up reply is sent, also when one raises while the other
\* is still running.
C8_BothCompleteBeforeReply ==
    (dispatched /\ NumSent("chat") >= 1) =>
        /\ prov.pc \in {"returned", "raised"}
        /\ jpc = "returned"

\* C9: an exception raised by a task or while composing the reply is caught
\* by the handler and becomes the one reply "Error: " followed by the
\* exception's message; it never leaves handle_message.
C9_ExceptionsBecomeErrorReply ==
    /\ hpc # "propagated"
    /\ (prov.pc = "raised" /\ hpc \in {"reply", "done"}) =>
          reply = ErrorReply(prov.exc)
    /\ (/\ hpc \in {"reply", "done"}
        /\ prov.pc = "returned"
        /\ jresult.n > 0
        /\ ~jresult.mappings) => reply = ErrorReply("format")
    /\ hexc # None => reply = ErrorReply(hexc)
    /\ (hpc = "done" /\ hexc # None) =>
          sent = <<Ack(msg.msg_id), Chat(ErrorReply(hexc))>>

C9_Witness ==
    /\ hpc = "done"
    /\ prov.pc = "raised"
    /\ prov.exc = "launch"
    /\ hexc = "launch"
    /\ sent = <<Ack(msg.msg_id), Chat(ErrorReply("launch"))>>

(* ========================== main()'s claims =========================== *)

\* the length of a text between its first and its last character that is
\* not white space
InkedSpan(t) ==
    LET inked == {i \in 1..Len(t) : t[i] # " "}
    IN  IF inked = {} THEN 0
        ELSE (CHOOSE i \in inked : \A j \in inked : j <= i)
                 - (CHOOSE i \in inked : \A j \in inked : i <= j) + 1

\* C11: when the sandbox-platform key is absent both entry points end with
\* the failure reported and no unhandled exception: the chat handler sends
\* its one follow-up reply, and main returns normally after the
\* provisioner's early return.
C11_MissingKeyReported ==
    /\ (~apiKey /\ dispatched /\ hpc = "done") =>
          NumSent("chat") = 1 /\ hpc # "propagated"
    /\ (~apiKey /\ prov.pc = "returned" /\ cli.pc \notin {"off", "call"}) =>
          cli.pc = "returned" /\ cli.exc = None

\* C13: main calls the provisioner only for a non-empty trimmed input (an
\* empty one prints the validation message and returns, no sandbox created);
\* when the provisioner returns a sandbox, main blocks with the sandbox live
\* until interrupted and then deletes it exactly once: no run that returns
\* from main leaves a returned sandbox undeleted.
C13_CliDeletesReturnedSandbox ==
    /\ prov # NoCall => InkedSpan(cli.line) > 0
    /\ (cli.pc = "returned" /\ InkedSpan(cli.line) = 0) =>
          cli.printed = "invalid" /\ prov = NoCall
    /\ cli.pc \in {"blocked", "cleanup"} =>
          /\ prov.pc = "returned"
          /\ prov.result.sandbox = "sandbox"
          /\ prov.sandbox = "live"
          /\ prov.deletes = 0
    /\ (cli.pc = "returned" /\ prov.sandbox # "none") =>
          /\ prov.sandbox = "deleted"
          /\ prov.deletes = 1
          /\ prov.calls[Len(prov.calls)] = "delete"

C13_Witness ==
    /\ cli.pc = "returned"
    /\ prov.result.sandbox = "sandbox"
    /\ prov.sandbox = "deleted"
    /\ prov.deletes = 1
    /\ cli.printed = "Done!"

(* ===================== the result and the reply ====================== *)

\* C12: the URL of the provisioner's result is None exactly when no listings
\* were found or provisioning failed (no key, or an exception): with
\* listings found and no gating step raising it is the resolved port-3000
\* preview URL, also when the poll never saw a 200; the reply reports the
\* URL of the result.
C12_UrlNoneIffNoListingsOrFailure ==
    /\ prov.pc = "returned" =>
          /\ prov.result.url = None <=>
                (~apiKey \/ (prov.jobs # Unset /\ prov.jobs.n = 0))
          /\ prov.result.url # None => prov.result.url = "url3000"
    /\ prov.pc = "raised" => prov.result.url = None
    /\ reply.kind = "results" => reply.url = prov.result.url

C12_Witness ==
    /\ prov.pc = "returned"
    /\ prov.jobs.n > 0
    /\ ~prov.ready
    /\ prov.requests = 45
    /\ prov.result.url = "url3000"
    /\ hpc = "done"
    /\ reply.url = "url3000"

\* C14: for a valid message whose two tasks both return, n listings from the
\* handler's own search, the reply is the preview line (the provisioner's URL,
\* or "unavailable" when it is None) and, under "Top results:", exactly
\* min(n, 5) entries numbered 1..min(n, 5) in the order of the response, or
\* "No jobs found." (no entry) when n = 0.
C14_ReplyListsTopFive ==
    (/\ hpc \in {"reply", "done"}
     /\ prov.pc = "returned"
     /\ jpc = "returned"
     /\ jresult.mappings) =>
        /\ reply.kind = "results"
        /\ reply.url = prov.result.url
        /\ Len(reply.entries) = (IF jresult.n <= 5 THEN jresult.n ELSE 5)
        /\ \A i \in 1..Len(reply.entries) :
              reply.entries[i].num = i /\ reply.entries[i].job = i
        /\ hpc = "done" => sent = <<Ack(msg.msg_id), Chat(reply)>>

C14_Witness ==
    /\ hpc = "done"
    /\ jresult.n = 6
    /\ jresult.mappings
    /\ prov.pc = "returned"
    /\ Len(sent) = 2
    /\ sent[2].text.kind = "results"
    /\ sent[2].text.url = "url3000"
    /\ Len(sent[2].text.entries) = 5

(* ======================== location resolution ========================= *)

\* the canonical names of the locations, in list order
CanonicalNames ==
    <<<<"N", "E", "W", "_", "Y", "O", "R", "K">>,
      <<"S", "A", "N", "_", "F", "R", "A", "N", "C", "I", "S", "C", "O">>,
      <<"C", "H", "I", "C", "A", "G", "O">>,
      <<"L", "O", "S", "_", "A", "N", "G", "E", "L", "E", "S">>,
      <<"S", "E", "A", "T", "T", "L", "E">>,
      <<"B", "O", "S", "T", "O", "N">>,
      <<"A", "U", "S", "T", "I", "N">>,
      <<"D", "E", "N", "V", "E", "R">>,
      <<"M", "I", "A", "M", "I">>,
      <<"R", "E", "M", "O", "T", "E">>,
      <<"A", "N", "Y", "W", "H", "E", "R", "E">>,
      <<"U", "S">>,
      <<"U", "K">>>>

\* the i-th location occurs in the text, case ignored
Occurs(i, text) ==
    \E k \in 0..(Len(text) - Len(Locations[i])) :
        \A j \in 1..Len(Locations[i]) : LowerChar(text[k + j]) = Locations[i][j]

\* C15: location resolution is case-insensitive substring matching against
\* the ordered list of thirteen locations: the result is the canonical name
\* (spaces replaced by underscores, upper case) of the earliest-listed
\* location that occurs in the input, and "US" when none occurs.
C15_FirstListedLocationWins ==
    pure.pc = "returned" =>
        LET hits == {i \in 1..Len(Locations) : Occurs(i, pure.arg)}
        IN  IF hits = {} THEN pure.out = <<"U", "S">>
            ELSE pure.out =
                   CanonicalNames[CHOOSE i \in hits : \A j \in hits : i <= j]

\* "Boston" and "uk" both occur: the earlier-listed one wins
C15_Witness ==
    /\ pure.pc = "returned"
    /\ Occurs(6, pure.arg)
    /\ Occurs(13, pure.arg)
    /\ pure.arg # LowerStr(pure.arg)
    /\ pure.out = <<"B", "O", "S", "T", "O", "N">>

(* ========================= listing formatter ========================== *)

\* the listing formatted has a description: a non-empty text
HasDescription ==
    /\ "job_description" \in pure.arg.has
    /\ pure.arg.val.job_description.t = "str"
    /\ Len(pure.arg.val.job_description.s) > 0

StepRank(name) ==
    CASE name = "create" -> 1
      [] name = "search" -> 2
      [] name = "upload" -> 3
      [] name = "session" -> 4
      [] name = "install" -> 5
      [] name = "diag_ls" -> 6
      [] name = "diag_python" -> 7
      [] name = "launch" -> 8
      [] name = "preview" -> 9
      [] name = "terminal" -> 10
      [] name = "diag_ps" -> 12
      [] name = "diag_tail" -> 13
      [] name = "delete" -> 14

\* the search found listings
ListingsFound == prov.jobs # Unset /\ prov.jobs.n > 0

\* how often a remote step was issued
TimesCalled(name) ==
    Cardinality({i \in 1..Len(prov.calls) : prov.calls[i] = name})

\* C17: on the listings-found path the remote steps are issued in the order
\* create, search, upload, session, install attempts, the two pre-launch
\* diagnostics, launch, primary preview link, secondary preview link, health
\* poll: none is skipped or repeated (the install attempts excepted), each
\* is issued where the previous one ended, the launch command is issued
\* exactly once, and the upload precedes the launch.
C17_RemoteStepsInFixedOrder ==
    ListingsFound =>
        /\ prov.calls[1] = "create"
        /\ \A i \in 1..(Len(prov.calls) - 1) :
              \/ StepRank(prov.calls[i + 1]) = StepRank(prov.calls[i]) + 1
              \/ prov.calls[i] = "install" /\ prov.calls[i + 1] = "install"
              \/ prov.calls[i] = "terminal" /\ prov.calls[i + 1] = "diag_ps"
        /\ prov.requests > 0 =>
              /\ Len(prov.calls) >= 10
              /\ \E i \in 1..Len(prov.calls) : prov.calls[i] = "terminal"
        /\ TimesCalled("diag_ps") > 0 => prov.requests = 45
        /\ TimesCalled("launch") <= 1
        /\ prov.pc \in {"preview", "terminal", "poll", "sleep", "diag_ps",
                        "diag_ps_except", "diag_tail", "diag_tail_except",
                        "return", "returned"} =>
              TimesCalled("launch") = 1
        /\ \A i \in 1..Len(prov.calls) :
              prov.calls[i] = "launch" =>
                 \E j \in 1..(i - 1) : prov.calls[j] = "upload"

\* the whole sequence was run, with two install attempts and a poll
C17_Witness ==
    /\ prov.pc = "returned"
    /\ ListingsFound
    /\ prov.requests > 1
    /\ prov.calls = <<"create", "search", "upload", "session", "install",
                      "install", "diag_ls", "diag_python", "launch",
                      "preview", "terminal">>

(* ======================= the dependency installs ======================= *)

\* the provisioner is past the install loop
PastInstall ==
    /\ TimesCalled("session") = 1
    /\ prov.pc \in {"diag_ls", "diag_python", "launch", "preview", "terminal",
                    "poll", "sleep", "diag_ps", "diag_tail", "return",
                    "returned", "diag_ls_except", "diag_python_except",
                    "diag_ps_except", "diag_tail_except"}

\* C18: the install commands are attempted in list order (the k-th attempt
\* runs the k-th command), none after one that succeeded, four at most;
\* the loop is left for the diagnostics and the launch after a success or
\* after four failures, and no failed attempt raises out of the provisioner.
C18_InstallsStopAtFirstSuccess ==
    /\ Len(prov.installs) <= 4
    /\ \A i \in 1..Len(prov.installs) :
          /\ prov.installs[i].cmd = i
          /\ prov.installs[i].ok => i = Len(prov.installs)
    /\ TimesCalled("install") = Len(prov.installs)
    /\ prov.pc = "install" =>
          \A i \in 1..Len(prov.installs) : ~prov.installs[i].ok
    /\ PastInstall =>
          \/ Len(prov.installs) = 4
          \/ prov.installs[Len(prov.installs)].ok
    /\ prov.exc # "install"
    /\ (prov.pc = "raised" /\ Len(prov.installs) > 0) =>
          prov.exc \in {"launch", "preview"}

\* all four commands failed and the launch was issued all the same
C18_Witness ==
    /\ Len(prov.installs) = 4
    /\ \A i \in 1..4 : ~prov.installs[i].ok
    /\ TimesCalled("launch") = 1
    /\ prov.pc = "returned"

(* ==================== best-effort and gating steps ===================== *)

\* the provisioner takes a step
ProvMoves == prov' # prov /\ prov.pc \notin {"idle", "returned", "raised"}

\* the statement after a gating step that returned
AfterGating(name) ==
    CASE name = "upload" -> "session"
      [] name = "session" -> "install"
      [] name = "launch" -> "preview"
      [] name = "preview" -> "terminal"

\* what a step of the provisioner does at a best-effort step: the call is
\* issued and, returned or raised, control reaches the statement after it
\* (through the except clause when it raised) with nothing else changed
BestEffortFrame ==
    /\ prov.pc \in Diagnostics =>
          /\ prov'.pc \in {AfterStep(prov.pc), HandlerOf(prov.pc)}
          /\ prov' = [Called(prov, prov.pc) EXCEPT !.pc = prov'.pc]
    /\ prov.pc \in Handlers =>
          prov' = [prov EXCEPT !.pc = AfterStep(GuardedBy(prov.pc))]
    /\ prov.pc = "install" =>
          /\ prov'.pc \in {"install", "diag_ls"}
          /\ prov'.exc = None /\ prov'.url = prov.url
          /\ prov'.result = prov.result
          /\ ~prov'.installs[Len(prov'.installs)].ok =>
                prov'.pc = (IF Len(prov'.installs) = 4 THEN "diag_ls"
                            ELSE "install")
    /\ prov.pc = "terminal" =>
          /\ prov'.pc = "poll"
          /\ prov'.exc = None /\ prov'.url = prov.url
          /\ prov'.result = prov.result

\* what a step does at a gating step: it returns and the next statement is
\* reached, or its exception leaves the provisioner
GatingPropagates ==
    prov.pc \in GatingSteps =>
        \/ prov'.pc = AfterGating(prov.pc) /\ prov'.exc = None
        \/ prov'.pc = "raised" /\ prov'.exc = prov.pc

\* the exceptions that leave the provisioner are those of the creation, of
\* the page's rendering and of the gating steps; a returned execution with
\* listings returns the sandbox and the primary link whatever failed
OnlyGatingRaises ==
    /\ prov.pc = "raised" =>
          prov.exc \in {"create", "format"} \cup GatingSteps
    /\ prov.exc # None => prov.pc = "raised"
    /\ (prov.pc = "returned" /\ ListingsFound) =>
          prov.result = [tuple |-> TRUE, sandbox |-> "sandbox",
                         url |-> "url3000"]
    /\ (hpc \in {"except", "reply", "done"} /\ prov.pc = "raised") =>
          hexc = prov.exc

\* C19: a failure of a best-effort step (install attempt, file-listing or
\* interpreter diagnostic, secondary preview link, post-timeout process and
\* log diagnostics) leaves the steps that follow and the returned value as
\* they are after a success, and a failure of a gating step (upload, session
\* creation, launch, primary preview link) leaves the provisioner as an
\* exception that reaches its caller.
C19_BestEffortSwallowedGatingPropagates ==
    /\ []OnlyGatingRaises
    /\ [][ProvMoves => BestEffortFrame /\ GatingPropagates]_vars

\* every install and the secondary link failed, the poll timed out, the last
\* diagnostic raised: its except clause is entered, launch and primary link
\* were issued as ever
C19_Witness ==
    /\ prov.pc = "diag_tail_except"
    /\ Len(prov.installs) = 4
    /\ \A i \in 1..4 : ~prov.installs[i].ok
    /\ prov.terminal = None
    /\ prov.calls = <<"create", "search", "upload", "session", "install",
                      "install", "install", "install", "diag_ls",
                      "diag_python", "launch", "preview", "terminal",
                      "diag_ps", "diag_tail">>
    /\ prov.url = "url3000"

(* ====================== ownership of the sandboxes ===================== *)

BoxIds == 1..Len(conc.boxes)

\* C20: in every interleaving of the provisioning calls of different
\* messages, each operation on a sandbox (upload, session creation, command
\* execution, preview link, delete) is issued by the call that created it,
\* so no two calls operate on one sandbox; and a URL in a reply is that of a
\* sandbox created for the same message and not deleted.
C20_SandboxOwnedByItsCreator ==
    conc.pc = "on" =>
        /\ \A b \in BoxIds :
              \A op \in conc.boxes[b].ops : op.by = conc.boxes[b].creator
        /\ \A c \in CallIds :
              /\ conc.calls[c].sandbox # 0 =>
                    /\ conc.calls[c].sandbox \in BoxIds
                    /\ conc.boxes[conc.calls[c].sandbox].creator = c
              /\ conc.calls[c].replyUrl # 0 =>
                    /\ conc.calls[c].replyUrl \in BoxIds
                    /\ conc.boxes[conc.calls[c].replyUrl].creator = c
                    /\ ~conc.boxes[conc.calls[c].replyUrl].deleted
        /\ \A c, d \in CallIds :
              (c # d /\ conc.calls[c].sandbox # 0) =>
                  conc.calls[c].sandbox # conc.calls[d].sandbox

\* two calls overlapped: the second message's call created its sandbox
\* first, both sandboxes were operated on, and the first message's reply
\* carries a URL while the other call is still at work
C20_Witness ==
    /\ conc.pc = "on"
    /\ Len(conc.boxes) = 2
    /\ conc.boxes[1].creator = 2
    /\ conc.calls[1].replyUrl = 2
    /\ conc.boxes[1].ops # {}
    /\ conc.calls[2].pc \in SandboxOps

====
